---- MODULE Spec2Model ----
(***************************************************************************)
(* A model of seapy/roms/analysis.py: constant_depth (the parallel         *)
(* per-time-step vertical interpolation), depth_average (the layer         *)
(* selection and thickness-weighted average) and transect (the equidistant *)
(* section with its bottom mask).                                          *)
(*                                                                         *)
(* Arrays are records of a shape and of their contents.  Real numbers are  *)
(* exact rationals <<num, den>>.  The three functions are three state      *)
(* machines over disjoint variables, each with its own specification:      *)
(* SpecCD, SpecDA and SpecTR.                                              *)
(***************************************************************************)
EXTENDS Integers, Sequences, FiniteSets, TLC

VARIABLES
    \* ---- constant_depth
    cd_pc,      \* position in constant_depth
    cd_in,      \* the caller's arguments: field, zeta, depth (never written)
    field,      \* the local name field (re-bound by adddim)
    zeta,       \* the local name zeta
    depth,      \* the local name depth
    fz,         \* the target depth surface handed to every job
    next_i,     \* the generator's next time index (1-based)
    jobs,       \* job index -> "queued" | "running" | "done"
    results,    \* job index -> value returned by __dinterp
    order,      \* job indices in the order the jobs completed
    nfield,     \* the returned array
    \* ---- depth_average
    da_pc,      \* position in depth_average
    da_in,      \* the caller's arguments: grid, field, depth, top_depth, zeta
    da_depth,   \* the local name depth
    da_top,     \* the local name top_depth (a scalar)
    depths,     \* cell -> layer depths (<<>>: a masked, land column)
    thickness,  \* cell -> layer thicknesses (0: masked)
    da_out,     \* cell -> <<sum(field * thickness), sum(thickness)>> or <<>>
    \* ---- transect
    tr_pc,      \* position in transect
    tr_in,      \* the arguments as the caller passed them (never written)
    caller_depth, \* the contents of the caller's depth object
    caller_z,   \* the contents of the caller's z object (<<>>: None)
    t_depth,    \* the local array depth: waypoint -> layer depths
    t_z,        \* the local z: the vertical axis, rationals
    t_dist,     \* the local dist: one distance per waypoint, rationals
    t_zscale,   \* zscale
    t_x,        \* x: the horizontal axis, rationals
    t_src,      \* the padded source points: dep and dat per waypoint
    t_idx,      \* idx: the bottom index of every column (0-based)
    t_mask,     \* mask: level (1-based) -> column -> BOOLEAN
    tr_out      \* the returned x, z and masked array

cd_vars == <<cd_pc, cd_in, field, zeta, depth, fz, next_i, jobs, results,
             order, nfield>>

da_vars == <<da_pc, da_in, da_depth, da_top, depths, thickness, da_out>>

tr_vars == <<tr_pc, tr_in, caller_depth, caller_z, t_depth, t_z, t_dist,
             t_zscale, t_x, t_src, t_idx, t_mask, tr_out>>

vars == <<cd_vars, da_vars, tr_vars>>

\* ------------------------------------------------------------------ bounds

\* grid.n: the number of vertical layers of the grid
NLayers == 3
\* the largest number of time steps of a field
MaxT == 3
\* the largest horizontal extent (eta, xi) of a grid
MaxDim == 3
\* the number of workers of the joblib pool
MaxWorkers == 2
\* the number of horizontal cells of the grid depth_average is called with
NCells == 2
\* the largest number of waypoints of a transect
MaxWp == 3
\* the largest waypoint latitude, in steps along a meridian
MaxLat == 2
\* the largest nx and nz a transect is asked for
MaxNx == 3
MaxNz == 3

\* ----------------------------------------------------------------- helpers

Abs(a) == IF a < 0 THEN -a ELSE a

RECURSIVE SeqSum(_)
SeqSum(s) == IF s = <<>> THEN 0 ELSE Head(s) + SeqSum(Tail(s))

\* The least and the greatest element of a non-empty set of integers
MinOf(S) == CHOOSE m \in S : \A e \in S : m <= e
MaxOf(S) == CHOOSE m \in S : \A e \in S : m >= e

\* Every way of choosing one element from each set of a sequence of sets
Choices(sets) ==
    {f \in [1..Len(sets) -> UNION {sets[i] : i \in 1..Len(sets)}] :
        \A i \in 1..Len(sets) : f[i] \in sets[i]}

\* -------------------------------------------------------------- rationals

RECURSIVE GCD(_, _)
GCD(a, b) == IF b = 0 THEN a ELSE GCD(b, a % b)

\* The rational n / d (d # 0) in lowest terms with a positive denominator
Rat(n, d) ==
    LET g == GCD(Abs(n), Abs(d))
        sg == IF d < 0 THEN -1 ELSE 1
    IN <<(sg * n) \div g, (sg * d) \div g>>
RInt(n) == <<n, 1>>
RAdd(a, b) == Rat(a[1] * b[2] + b[1] * a[2], a[2] * b[2])
RSub(a, b) == Rat(a[1] * b[2] - b[1] * a[2], a[2] * b[2])
RMul(a, b) == Rat(a[1] * b[1], a[2] * b[2])
RDiv(a, b) == Rat(a[1] * b[2], a[2] * b[1])
RLess(a, b) == a[1] * b[2] < b[1] * a[2]
RLeq(a, b) == a[1] * b[2] <= b[1] * a[2]
RAbs(a) == <<Abs(a[1]), a[2]>>
\* astype(int): truncation toward zero
RTrunc(a) == IF a[1] >= 0 THEN a[1] \div a[2] ELSE -((-a[1]) \div a[2])

\* ------------------------------------------------------------------- grid

\* The static grid of one column scale s: layer k = 1 is the bottom layer,
\* layer NLayers the top one, as in ROMS.
GridH(s) == 2 * NLayers * s
DepthRho(s) == [k \in 1..NLayers |-> -((2 * (NLayers - k) + 1) * s)]

\* seapy.roms.depth with vtransform 2: z = zeta + (zeta + h) * S, S = z0 / h
DepthZeta(s, zt) ==
    [k \in 1..NLayers |->
        DepthRho(s)[k] + (zt * (GridH(s) + DepthRho(s)[k])) \div GridH(s)]

\* Column scales: a shallow and a deep column
Scales == {2, 5}

\* The column scale of the grid constant_depth is called with
CDScale == MaxOf(Scales)

\* --------------------------------------------------------- numpy operators

\* np.ndim
Ndim(a) == Len(a.shape)

\* np.squeeze on a shape: every axis of length 1 is dropped
Squeeze(shape) == SelectSeq(shape, LAMBDA d : d # 1)

\* seapy.adddim(fld): a new first axis of length 1
adddim(a) == [shape |-> <<1>> \o a.shape, data |-> <<a.data>>]

\* depth = depth if depth < 0 else -depth
NegDown(d) == IF d < 0 THEN d ELSE -d

\* ------------------------------------------------------------ constant_depth

\* The shape of field[i, :, :, :]: the first axis is indexed away
SliceShape(a) == Tail(a.shape)

\* __dinterp(x, y, z, dat, fz, pmap): oavol samples the profile (z, dat) at
\* fz on the x, y grid; the result is squeezed.  The result is kept as the
\* term of its inputs.
dinterp(xshape, z, dat, fzv) ==
    [z |-> z, dat |-> dat, fz |-> fzv, shape |-> Squeeze(<<1>> \o xshape)]

\* (a variant that lists the results as the jobs complete)
ParallelCompletionOrder(res, ord) == [i \in 1..Len(ord) |-> res[ord[i]]]
\* The list Parallel returns: the jobs' results in the order of the
\* generator, whatever the order of completion.
ParallelResults(res, ord) == [i \in 1..Len(ord) |-> res[i]]

\* (a variant that drops the axes of length 1 from the stacked array)
MaArraySqueezed(lst) ==
    [shape |-> Squeeze(<<Len(lst)>> \o lst[1].shape), data |-> lst]
\* np.ma.array(list of T arrays): the arrays stacked along a new first axis
MaArray(lst) == [shape |-> <<Len(lst)>> \o lst[1].shape, data |-> lst]

\* Fields of rank 1 to 5; the data of a rank-3 field is one slab, the data
\* of any other is the sequence of its first axis' sub-arrays.
FieldShapes(r) ==
    IF r = 1 THEN {<<xi>> : xi \in 2..MaxDim}
    ELSE IF r = 2 THEN {<<eta, xi>> : eta \in 2..MaxDim, xi \in {2}}
    ELSE IF r = 3 THEN {<<NLayers, eta, xi>> : eta \in 2..MaxDim, xi \in 2..MaxDim}
    ELSE IF r = 4 THEN {<<t, NLayers, eta, xi>> :
                            t \in 1..MaxT, eta \in 2..MaxDim, xi \in {2}}
    ELSE {<<t, 2, NLayers, eta, 2>> : t \in 1..2, eta \in {2}}

Slabs == {1, 2}

Fields ==
    UNION {
        {[shape |-> sh, data |-> d] :
            d \in IF Len(sh) = 3 THEN Slabs ELSE [1..sh[1] -> Slabs]}
        : sh \in UNION {FieldShapes(r) : r \in 1..5}}

\* The last two axes of a shape (the horizontal ones), when it has them
Last2(shape) ==
    IF Len(shape) < 2 THEN shape ELSE SubSeq(shape, Len(shape) - 1, Len(shape))

\* A surface height that keeps DepthZeta integral
ZetaUp == 2 * NLayers

\* zeta: None (the empty sequence), or <<array>>: one surface height per
\* time step (all zero, or alternating), a 2-D array with a single-time
\* 3-D field.
Zetas(f) ==
    {<<>>} \cup
    IF Len(f.shape) = 3
      THEN {<<[shape |-> Last2(f.shape), data |-> zt]>> : zt \in {0, ZetaUp}}
      ELSE {<<[shape |-> <<f.shape[1]>> \o Last2(f.shape),
               data |-> [i \in 1..f.shape[1] |-> a * (i % 2)]]>> :
               a \in {0, ZetaUp}}

NoArray == [shape |-> <<>>, data |-> <<>>]

CDIdle ==
    /\ cd_pc = "idle"
    /\ cd_in = [field |-> NoArray, zeta |-> <<>>, depth |-> 0]
    /\ field = NoArray
    /\ zeta = <<>>
    /\ depth = 0
    /\ fz = 0
    /\ next_i = 1
    /\ jobs = <<>>
    /\ results = <<>>
    /\ order = <<>>
    /\ nfield = NoArray

CDInit ==
    /\ cd_pc = "start"
    /\ \E f \in Fields : \E z \in Zetas(f) : \E d \in {-5, 5} :
          /\ cd_in = [field |-> f, zeta |-> z, depth |-> d]
          /\ field = f
          /\ zeta = z
          /\ depth = d
    /\ fz = 0
    /\ next_i = 1
    /\ jobs = <<>>
    /\ results = <<>>
    /\ order = <<>>
    /\ nfield = NoArray

\* lines 53-58: a 3-D field gets a time axis; zeta, when given, gets one
\* too (np.ndim(zeta == 2) is the rank of a boolean array, never 0 here);
\* the depth is made negative.
CDValidate ==
    /\ cd_pc = "start"
    /\ field' = IF Ndim(field) = 3 THEN adddim(field) ELSE field
    /\ zeta' = IF zeta # <<>> /\ Ndim(zeta[1]) # 0
                 THEN <<adddim(zeta[1])>> ELSE zeta
    /\ depth' = NegDown(depth)
    /\ cd_pc' = "setup"
    /\ UNCHANGED <<cd_in, fz, next_i, jobs, results, order, nfield>>
    /\ UNCHANGED <<da_vars, tr_vars>>

\* lines 61-63: the x, y grid from the field's last two axes (an
\* IndexError when the field has fewer than two), and the target surface.
CDSetup ==
    /\ cd_pc = "setup"
    /\ IF Ndim(field) < 2
         THEN /\ cd_pc' = "error"
              /\ UNCHANGED fz
         ELSE /\ cd_pc' = "dispatch"
              /\ fz' = depth
    /\ UNCHANGED <<cd_in, field, zeta, depth, next_i, jobs, results, order,
                   nfield>>
    /\ UNCHANGED <<da_vars, tr_vars>>

XShape == Last2(field.shape)

\* lines 65-68, the generator: the next item's arguments are evaluated in
\* the caller, field[i, :, :, :] raising an IndexError on a field of fewer
\* than four axes, and the job is handed to the pool.
CDDispatch ==
    /\ cd_pc = "dispatch"
    /\ next_i <= field.shape[1]
    /\ IF Ndim(field) < 4
         THEN /\ cd_pc' = "error"
              /\ UNCHANGED <<jobs, next_i>>
         ELSE /\ jobs' = Append(jobs, "queued")
              /\ next_i' = next_i + 1
              /\ UNCHANGED cd_pc
    /\ UNCHANGED <<cd_in, field, zeta, depth, fz, results, order, nfield>>
    /\ UNCHANGED <<da_vars, tr_vars>>

Running == {i \in 1..Len(jobs) : jobs[i] = "running"}

\* A free worker takes a queued job.
CDJobStart(i) ==
    /\ cd_pc = "dispatch"
    /\ jobs[i] = "queued"
    /\ Cardinality(Running) < MaxWorkers
    /\ jobs' = [jobs EXCEPT ![i] = "running"]
    /\ UNCHANGED <<cd_pc, cd_in, field, zeta, depth, fz, next_i, results,
                   order, nfield>>
    /\ UNCHANGED <<da_vars, tr_vars>>

\* lines 21-24 and 66-67: the job of time step i returns the interpolation
\* of np.squeeze(field[i]) on grid.depth_rho at fz.
JobResult(i) ==
    dinterp(XShape, DepthRho(CDScale), field.data[i], fz)

CDJobFinish(i) ==
    /\ cd_pc = "dispatch"
    /\ jobs[i] = "running"
    /\ jobs' = [jobs EXCEPT ![i] = "done"]
    /\ results' = (i :> JobResult(i)) @@ results
    /\ order' = Append(order, i)
    /\ UNCHANGED <<cd_pc, cd_in, field, zeta, depth, fz, next_i, nfield>>
    /\ UNCHANGED <<da_vars, tr_vars>>

\* oavol is handed a dat that is not 3-D (a field of more than four axes):
\* the job may raise, and the exception ends the call.
CDJobFail(i) ==
    /\ cd_pc = "dispatch"
    /\ jobs[i] = "running"
    /\ Len(Squeeze(SliceShape(field))) # 3
    /\ cd_pc' = "error"
    /\ UNCHANGED <<cd_in, field, zeta, depth, fz, next_i, jobs, results,
                   order, nfield>>
    /\ UNCHANGED <<da_vars, tr_vars>>

\* lines 65-70: every job is done; the results become the returned array.
CDCollect ==
    /\ cd_pc = "dispatch"
    /\ next_i > field.shape[1]
    /\ \A i \in 1..Len(jobs) : jobs[i] = "done"
    /\ nfield' = MaArray(ParallelResults(results, order))
    /\ cd_pc' = "done"
    /\ UNCHANGED <<cd_in, field, zeta, depth, fz, next_i, jobs, results,
                   order>>
    /\ UNCHANGED <<da_vars, tr_vars>>

CDNext ==
    \/ CDValidate
    \/ CDSetup
    \/ CDDispatch
    \/ \E i \in 1..Len(jobs) : CDJobStart(i)
    \/ \E i \in 1..Len(jobs) : CDJobFinish(i)
    \/ \E i \in 1..Len(jobs) : CDJobFail(i)
    \/ CDCollect

\* ------------------------------------------------------------ depth_average

\* grid.thick_rho of a column of scale s
ThickRho(s) == [k \in 1..NLayers |-> s * (1 + (k % 2))]

\* seapy.roms.thickness with a free surface: Hz * (h + zeta) / h
ThickZeta(s, zt) ==
    [k \in 1..NLayers |-> (ThickRho(s)[k] * (GridH(s) + zt)) \div GridH(s)]

\* The fields depth_average is called with, by cell c and layer k
FieldPatterns == {"const", "layer", "mixed"}
FieldVal(p, c, k) ==
    IF p = "const" THEN 5 ELSE IF p = "layer" THEN k ELSE c + 2 * k

\* The grids: per cell a column scale and a sea (1) / land (0) mask
Grids == [1..NCells -> [s : Scales, mask : {0, 1}]]

\* The deepest layer depth of the grid, and the bound values of the calls
GridMin(g) ==
    CHOOSE m \in {DepthRho(g[c].s)[1] : c \in 1..NCells} :
        \A c \in 1..NCells : m <= DepthRho(g[c].s)[1]
BoundVals(g) == {0, -1, 3, -7, 12, -GridMin(g), GridMin(g)}

\* Extended numbers: <<-1, 0>> is -inf, <<0, v>> is v, <<1, 0>> is +inf
PosInf == <<1, 0>>
NegInf == <<-1, 0>>
Fin(v) == <<0, v>>
ExtLess(a, b) == a[1] < b[1] \/ (a[1] = b[1] /\ a[2] < b[2])

\* np.argmin / np.argmax along the layer axis: the first index of the
\* smallest / largest entry (1-based here)
ArgMin(sq) ==
    CHOOSE k \in 1..Len(sq) :
        /\ \A j \in 1..Len(sq) : ~ExtLess(sq[j], sq[k])
        /\ \A j \in 1..(k - 1) : ExtLess(sq[k], sq[j])
ArgMax(sq) ==
    CHOOSE k \in 1..Len(sq) :
        /\ \A j \in 1..Len(sq) : ~ExtLess(sq[k], sq[j])
        /\ \A j \in 1..(k - 1) : ExtLess(sq[j], sq[k])

\* (a variant without the swap of lines 102-103)
NormBoundsNoSwap(d, t) == <<NegDown(d), NegDown(t)>>
\* lines 100-103: both bounds made negative, the deeper one first
NormBounds(d, t) ==
    IF NegDown(d) > NegDown(t) THEN <<NegDown(t), NegDown(d)>>
    ELSE <<NegDown(d), NegDown(t)>>

\* (a variant that keeps a top_depth of 0 as it is)
TopOfNoSurface(col, t) == t
\* line 133: a top_depth of 0 stands for the column's top layer depth
TopOf(col, t) == IF t = 0 THEN col[Len(col)] ELSE t

\* lines 134-135: upper = depths - top_depth, inf where negative
Upper(col, t) ==
    [k \in 1..Len(col) |->
        IF col[k] - TopOf(col, t) < 0 THEN PosInf ELSE Fin(col[k] - TopOf(col, t))]

\* lines 136-137: lower = depths - depth, -inf where positive
Lower(col, d) ==
    [k \in 1..Len(col) |->
        IF col[k] - d > 0 THEN NegInf ELSE Fin(col[k] - d)]

\* lines 138-141: the layers k with argmax(lower) <= k <= argmin(upper)
Selected(col, d, t) ==
    {k \in 1..Len(col) : k <= ArgMin(Upper(col, t)) /\ k >= ArgMax(Lower(col, d))}

\* lines 144-145 on one column: the sums over the layers of non-masked
\* thickness; a column with none is masked.
Integrate(fld, thk) ==
    IF \A k \in 1..Len(thk) : thk[k] = 0 THEN <<>>
    ELSE <<SeqSum([k \in 1..Len(thk) |-> fld[k] * thk[k]]), SeqSum(thk)>>

DAField(c) == [k \in 1..NLayers |-> FieldVal(da_in.field, c, k)]

DAIdle ==
    /\ da_pc = "idle"
    /\ da_in = <<>>
    /\ da_depth = 0
    /\ da_top = 0
    /\ depths = <<>>
    /\ thickness = <<>>
    /\ da_out = <<>>

DAInit ==
    /\ da_pc = "start"
    /\ \E g \in Grids : \E p \in FieldPatterns : \E zt \in {<<>>, <<ZetaUp>>} :
       \E d \in BoundVals(g) : \E t \in BoundVals(g) :
          /\ da_in = [grid |-> g, field |-> p, depth |-> d, top_depth |-> t,
                      zeta |-> zt]
          /\ da_depth = d
          /\ da_top = t
    /\ depths = <<>>
    /\ thickness = <<>>
    /\ da_out = <<>>

\* lines 99-104
DANormalise ==
    /\ da_pc = "start"
    /\ da_depth' = NormBounds(da_depth, da_top)[1]
    /\ da_top' = NormBounds(da_depth, da_top)[2]
    /\ da_pc' = "grid"
    /\ UNCHANGED <<da_in, depths, thickness, da_out>>
    /\ UNCHANGED <<cd_vars, tr_vars>>

\* lines 106-129: the depths are the static ones in both branches; the
\* thickness follows zeta when it is given.  Land columns are masked.  The
\* field is on rho points, so that lines 123-129 change nothing.
DAGrid ==
    /\ da_pc = "grid"
    /\ depths' = [c \in 1..NCells |->
                    IF da_in.grid[c].mask = 0 THEN <<>>
                    ELSE DepthRho(da_in.grid[c].s)]
    /\ thickness' = [c \in 1..NCells |->
                    IF da_in.grid[c].mask = 0 THEN [k \in 1..NLayers |-> 0]
                    ELSE IF da_in.zeta # <<>>
                      THEN ThickZeta(da_in.grid[c].s, da_in.zeta[1])
                      ELSE ThickRho(da_in.grid[c].s)]
    /\ da_pc' = "select"
    /\ UNCHANGED <<da_in, da_depth, da_top, da_out>>
    /\ UNCHANGED <<cd_vars, tr_vars>>

\* lines 131-141: the thickness of every layer outside the selection is
\* masked.
DASelect ==
    /\ da_pc = "select"
    /\ thickness' = [c \in 1..NCells |->
                    IF depths[c] = <<>> THEN thickness[c]
                    ELSE [k \in 1..NLayers |->
                            IF k \in Selected(depths[c], da_depth, da_top)
                              THEN thickness[c][k] ELSE 0]]
    /\ da_pc' = "integrate"
    /\ UNCHANGED <<da_in, da_depth, da_top, depths, da_out>>
    /\ UNCHANGED <<cd_vars, tr_vars>>

\* lines 143-145
DAIntegrate ==
    /\ da_pc = "integrate"
    /\ da_out' = [c \in 1..NCells |-> Integrate(DAField(c), thickness[c])]
    /\ da_pc' = "done"
    /\ UNCHANGED <<da_in, da_depth, da_top, depths, thickness>>
    /\ UNCHANGED <<cd_vars, tr_vars>>

DANext == DANormalise \/ DAGrid \/ DASelect \/ DAIntegrate

\* depth_average as a function of its arguments, on cell c
DepthAverage(g, p, d, t, zt, c) ==
    IF g[c].mask = 0 THEN <<>>
    ELSE LET nb == NormBounds(d, t)
             col == DepthRho(g[c].s)
             thk == IF zt # <<>> THEN ThickZeta(g[c].s, zt[1]) ELSE ThickRho(g[c].s)
             sel == Selected(col, nb[1], nb[2])
         IN Integrate([k \in 1..NLayers |-> FieldVal(p, c, k)],
                      [k \in 1..NLayers |-> IF k \in sel THEN thk[k] ELSE 0])

\* ----------------------------------------------------------------- transect

\* seapy.earth_distance between two points of one meridian: the arc
\* between their latitudes, a latitude step being 1000 m of arc
earth_distance(lat1, lat2) == 1000 * Abs(lat2 - lat1)

\* np.linspace(a, b, n), n >= 2, a and b rationals
Linspace(a, b, n) ==
    [i \in 1..n |-> RAdd(a, RMul(RInt(i - 1), RDiv(RSub(b, a), RInt(n - 1))))]

\* depth[depth > 0] *= -1 on one column, and on an array
Negate(col) == [k \in 1..Len(col) |-> IF col[k] > 0 THEN -col[k] ELSE col[k]]
NegateAll(arr) == [i \in 1..Len(arr) |-> Negate(arr[i])]

\* depth.min(), depth.max() and depth.min(axis=0)
ArrMin(arr) == MinOf({arr[i][k] : i \in 1..Len(arr), k \in 1..Len(arr[1])})
ArrMax(arr) == MaxOf({arr[i][k] : i \in 1..Len(arr), k \in 1..Len(arr[1])})
ColMin(col) == MinOf({col[k] : k \in 1..Len(col)})

\* np.argsort of a sequence of distinct integers: the indices by rising value
Argsort(sq) ==
    [r \in 1..Len(sq) |->
        CHOOSE k \in 1..Len(sq) :
            Cardinality({j \in 1..Len(sq) : sq[j] < sq[k]}) = r - 1]

\* zscale = np.maximum(1, 10**int(np.log10(r))) for a rational r > 0:
\* the largest power of ten not above r, and 1 when r < 10
RECURSIVE Pow10Floor(_, _)
Pow10Floor(r, p) == IF RLess(r, RInt(10 * p)) THEN p ELSE Pow10Floor(r, 10 * p)
ZScale(r) == Pow10Floor(r, 1)

NonDecreasing(xp) == \A j \in 1..(Len(xp) - 1) : RLeq(xp[j], xp[j + 1])

\* The value np.interp gives x from the bracket j of xp
InterpAt(x, xp, fp, j) ==
    IF j = Len(xp) \/ xp[j] = x THEN fp[j]
    ELSE RAdd(fp[j], RMul(RDiv(RSub(fp[j + 1], fp[j]), RSub(xp[j + 1], xp[j])),
                          RSub(x, xp[j])))

\* np.interp(x, xp, fp) for one x: the set of its possible results.  With
\* xp non-decreasing it is the linear interpolation on the bracket
\* xp[j] <= x < xp[j+1], fp[1] left of xp and fp[last] right of it.  numpy
\* does not check xp and documents the result as meaningless otherwise:
\* then the bracket the search ends on is any with distinct ends.
Interp(x, xp, fp) ==
    IF RLess(xp[Len(xp)], x) THEN {fp[Len(fp)]}
    ELSE IF RLess(x, xp[1]) THEN {fp[1]}
    ELSE IF NonDecreasing(xp)
      THEN {InterpAt(x, xp, fp,
                MaxOf({j \in 1..Len(xp) : RLeq(xp[j], x)}))}
      ELSE {InterpAt(x, xp, fp, j) :
                j \in {i \in 1..Len(xp) : i = Len(xp) \/ xp[i] # xp[i + 1]}}

\* The columns of a depth array, bottom layer first: a deep one, a shallow
\* one, and a deep one given positive-down
DepthCols == {<<-10, -2>>, <<-4, -1>>, <<10, 2>>}

\* The z a caller may pass: positive or negative down, evenly spaced or not
UserZ == {<<-10, -9, 0>>, <<10, 5, 0>>, <<0, 5, 10>>}

\* data[k, i]
DataVal(k, i) == 10 * k + i

TRIdle ==
    /\ tr_pc = "idle"
    /\ tr_in = <<>>
    /\ caller_depth = <<>>
    /\ caller_z = <<>>
    /\ t_depth = <<>>
    /\ t_z = <<>>
    /\ t_dist = <<>>
    /\ t_zscale = 1
    /\ t_x = <<>>
    /\ t_src = <<>>
    /\ t_idx = <<>>
    /\ t_mask = <<>>
    /\ tr_out = <<>>

TRInit ==
    /\ tr_pc = "start"
    /\ \E n \in 2..MaxWp : \E lat \in [1..n -> 0..MaxLat] :
       \E dep \in [1..n -> DepthCols] : \E dk \in {"ndarray", "list"} :
       \E nx \in 2..MaxNx : \E nz \in 2..MaxNz :
       \E z \in {<<>>} \cup UserZ : \E zk \in {"ndarray", "list"} :
          /\ (z = <<>> => zk = "ndarray")
          /\ (z # <<>> => nz = MaxNz)
          /\ tr_in = [lat |-> lat, depth |-> dep, depth_kind |-> dk,
                      nx |-> nx, nz |-> nz, z |-> z, z_kind |-> zk]
          /\ caller_depth = dep
          /\ caller_z = z
    /\ t_depth = <<>>
    /\ t_z = <<>>
    /\ t_dist = <<>>
    /\ t_zscale = 1
    /\ t_x = <<>>
    /\ t_src = <<>>
    /\ t_idx = <<>>
    /\ t_mask = <<>>
    /\ tr_out = <<>>

\* lines 180-183: np.atleast_2d gives back an ndarray as it is and copies
\* a list into a new array.
TRAtleast ==
    /\ tr_pc = "start"
    /\ t_depth' = caller_depth
    /\ tr_pc' = "sign"
    /\ UNCHANGED <<tr_in, caller_depth, caller_z, t_z, t_dist, t_zscale, t_x,
                   t_src, t_idx, t_mask, tr_out>>
    /\ UNCHANGED <<cd_vars, da_vars>>

\* lines 185-191: the depths are made negative in place, so in the
\* caller's array when depth is that array; z is built from the depths, or
\* the caller's z is made negative in place (a list z cannot be compared
\* with 0: a TypeError).
TRSign ==
    /\ tr_pc = "sign"
    /\ t_depth' = NegateAll(t_depth)
    /\ caller_depth' = IF tr_in.depth_kind = "ndarray"
                         THEN NegateAll(caller_depth) ELSE caller_depth
    /\ IF tr_in.z = <<>>
         THEN /\ t_z' = Linspace(RInt(ArrMin(t_depth') - 2),
                                 RInt(ArrMax(t_depth')), tr_in.nz)
              /\ tr_pc' = "dist"
              /\ UNCHANGED caller_z
         ELSE IF tr_in.z_kind = "list"
           THEN /\ tr_pc' = "error"
                /\ UNCHANGED <<t_z, caller_z>>
           ELSE /\ caller_z' = Negate(caller_z)
                /\ t_z' = [k \in 1..Len(caller_z) |-> RInt(Negate(caller_z)[k])]
                /\ tr_pc' = "dist"
    /\ UNCHANGED <<tr_in, t_dist, t_zscale, t_x, t_src, t_idx, t_mask, tr_out>>
    /\ UNCHANGED <<cd_vars, da_vars>>

\* lines 195-196: the distance of every waypoint from the first one
Dist(lat) == [i \in 1..Len(lat) |-> earth_distance(lat[1], lat[i])]

\* lines 192-200: dz, dist, dx, zscale and x.  int(np.log10(dx / dz))
\* raises when dx / dz is 0, infinite or not a number.
TRDist ==
    /\ tr_pc = "dist"
    /\ LET nz == Len(t_z)
           dz == RAbs(RDiv(RSub(t_z[nz], t_z[1]), RInt(nz - 1)))
           dist == Dist(tr_in.lat)
           dx == Rat(dist[Len(dist)] - dist[1], Len(dist) - 1)
       IN IF dz[1] = 0 \/ dx[1] = 0
            THEN /\ tr_pc' = "error"
                 /\ UNCHANGED <<t_dist, t_zscale, t_x>>
            ELSE /\ t_dist' = [i \in 1..Len(dist) |-> RInt(dist[i])]
                 /\ t_zscale' = ZScale(RDiv(dx, dz))
                 /\ t_x' = Linspace(RInt(0),
                              RInt(MaxOf({dist[i] : i \in 1..Len(dist)})),
                              tr_in.nx)
                 /\ tr_pc' = "pad"
    /\ UNCHANGED <<tr_in, caller_depth, caller_z, t_depth, t_z, t_src, t_idx,
                   t_mask, tr_out>>
    /\ UNCHANGED <<cd_vars, da_vars>>

\* lines 203-215: the source columns sorted by the first column's depths
\* and padded with a row at twice the least depth and a row at 0; the
\* distances divided by zscale.
TRPad ==
    /\ tr_pc = "pad"
    /\ LET zl == Argsort(t_depth[1])
           nk == Len(zl)
       IN t_src' = [i \in 1..Len(t_depth) |->
                     [dep |-> <<2 * ArrMin(t_depth)>>
                                \o [r \in 1..nk |-> t_depth[i][zl[r]]] \o <<0>>,
                      dat |-> <<DataVal(zl[1], i)>>
                                \o [r \in 1..nk |-> DataVal(zl[r], i)]
                                \o <<DataVal(zl[nk], i)>>]]
    /\ t_dist' = [i \in 1..Len(t_dist) |-> RDiv(t_dist[i], RInt(t_zscale))]
    /\ tr_pc' = "mask"
    /\ UNCHANGED <<tr_in, caller_depth, caller_z, t_depth, t_z, t_zscale, t_x,
                   t_idx, t_mask, tr_out>>
    /\ UNCHANGED <<cd_vars, da_vars>>

\* xx[0, :]: the horizontal axis divided by zscale
XX == [j \in 1..Len(t_x) |-> RDiv(t_x[j], RInt(t_zscale))]
\* depth.min(axis=0): the bottom depth at every waypoint
Bottoms == [i \in 1..Len(t_depth) |-> RInt(ColMin(t_depth[i]))]
Arange(n) == [k \in 1..n |-> RInt(k - 1)]

\* line 221: mask = np.arange(nz)[:, np.newaxis] <= idx
Mask(nz, idx) ==
    [k \in 1..nz |-> [j \in 1..Len(idx) |-> (k - 1) <= idx[j]]]

\* lines 217-221: the bottom index of every waypoint is interpolated from
\* its bottom depth on z, the bottom index of every column from those
\* along the distance, and cut to an integer.
TRMask ==
    /\ tr_pc = "mask"
    /\ \E fidx \in Choices([i \in 1..Len(t_depth) |->
                              Interp(Bottoms[i], t_z, Arange(Len(t_z)))]) :
       \E idx \in Choices([j \in 1..Len(t_x) |->
                              {RTrunc(v) : v \in Interp(XX[j], t_dist, fidx)}]) :
          /\ t_idx' = idx
          /\ t_mask' = Mask(Len(t_z), idx)
    /\ tr_pc' = "interp"
    /\ UNCHANGED <<tr_in, caller_depth, caller_z, t_depth, t_z, t_dist,
                   t_zscale, t_x, t_src, tr_out>>
    /\ UNCHANGED <<cd_vars, da_vars>>

\* lines 223-229: the cubic griddata of the source points on the (xx, zz)
\* grid, under the mask; x, z and the masked array are returned.
TRReturn ==
    /\ tr_pc = "interp"
    /\ tr_out' = [x |-> t_x, z |-> t_z,
                  ndat |-> [points |-> <<t_dist, t_src>>, mask |-> t_mask]]
    /\ tr_pc' = "done"
    /\ UNCHANGED <<tr_in, caller_depth, caller_z, t_depth, t_z, t_dist,
                   t_zscale, t_x, t_src, t_idx, t_mask>>
    /\ UNCHANGED <<cd_vars, da_vars>>

TRNext == TRAtleast \/ TRSign \/ TRDist \/ TRPad \/ TRMask \/ TRReturn

\* ------------------------------------------------- constant_depth: claims

\* The caller's field, seen as [time, ...]
InRank == Len(cd_in.field.shape)
InT == IF InRank = 3 THEN 1 ELSE cd_in.field.shape[1]
InStep(i) == IF InRank = 3 THEN cd_in.field.data ELSE cd_in.field.data[i]
InZeta(i) ==
    IF Len(cd_in.zeta[1].shape) = 2 THEN cd_in.zeta[1].data
    ELSE cd_in.zeta[1].data[i]
InXShape == Last2(cd_in.field.shape)

\* C1: when constant_depth returns, the array holds at index i the
\* interpolation of the caller's time step i, for every i, whatever the
\* order in which the jobs completed.
C1_OutputInTimeOrder ==
    cd_pc = "done" =>
        /\ Len(nfield.data) = InT
        /\ \A i \in 1..InT :
              nfield.data[i] = dinterp(InXShape, DepthRho(CDScale), InStep(i),
                                       NegDown(cd_in.depth))

\* C1 witness: a call returned whose jobs completed in another order than
\* the time order, on time steps that differ.
C1_Witness ==
    /\ cd_pc = "done"
    /\ InT >= 2
    /\ order # [i \in 1..InT |-> i]
    /\ InStep(1) # InStep(2)

\* C2 (as claimed): with a zeta given, the depths each time step is
\* interpolated on are the grid depths corrected by that step's zeta.
C2_ZetaCorrectsDepths ==
    (cd_pc = "done" /\ cd_in.zeta # <<>>) =>
        \A i \in 1..InT :
            nfield.data[i].z = DepthZeta(CDScale, InZeta(i))

\* C3 (as claimed): a 4-D field gives [time, eta, xi], a single-time 3-D
\* field gives [eta, xi].
C3_ShapeAsClaimed ==
    (cd_pc = "done" /\ InRank \in {3, 4}) =>
        nfield.shape = IF InRank = 4 THEN <<InT>> \o InXShape ELSE InXShape

\* C3 (amended): the returned array always has a leading time axis: a 4-D
\* field gives [time, eta, xi] and a single-time 3-D field [1, eta, xi].
C3_ShapeKeepsTimeAxis ==
    (cd_pc = "done" /\ InRank \in {3, 4}) =>
        nfield.shape = <<InT>> \o InXShape

\* C3 witness: a call with a single-time 3-D field has returned.
C3_Witness == cd_pc = "done" /\ InRank = 3 /\ Len(nfield.shape) = 3

\* C4 (as claimed): for a field of rank neither 3 nor 4 no job is ever
\* handed to the pool and nothing is returned.
C4_BadRankNoJob ==
    InRank \notin {3, 4} => (jobs = <<>> /\ cd_pc # "done")

\* -------------------------------------------------- depth_average: claims

SeaCells == {c \in 1..NCells : da_in.grid[c].mask = 1}
FullThick(c) ==
    IF da_in.zeta # <<>> THEN ThickZeta(da_in.grid[c].s, da_in.zeta[1])
    ELSE ThickRho(da_in.grid[c].s)

\* C8: depth_average(depth=a, top_depth=b) returns what
\* depth_average(depth=b, top_depth=a) returns, at every cell.
C8_BoundsOrderIndependent ==
    da_pc = "done" =>
        \A c \in 1..NCells :
            da_out[c] = DepthAverage(da_in.grid, da_in.field, da_in.top_depth,
                                     da_in.depth, da_in.zeta, c)

\* C8 witness: a call returned a value at a sea cell for two different
\* bounds given shallower one first, so that they were swapped.
C8_Witness ==
    /\ da_pc = "done"
    /\ NegDown(da_in.depth) > NegDown(da_in.top_depth)
    /\ \E c \in SeaCells : da_out[c] # <<>>

\* C9: with top_depth = 0 and depth the deepest depth of the grid, every
\* layer of every sea cell is selected and the result is the full-column
\* thickness-weighted average.
C9_FullColumnAverage ==
    (da_pc = "done" /\ da_in.top_depth = 0
        /\ NegDown(da_in.depth) = GridMin(da_in.grid)) =>
        \A c \in SeaCells :
            /\ \A k \in 1..NLayers : thickness[c][k] = FullThick(c)[k]
            /\ da_out[c] =
                 <<SeqSum([k \in 1..NLayers |-> DAField(c)[k] * FullThick(c)[k]]),
                   SeqSum(FullThick(c))>>

\* C9 witness: such a call returned on a grid with a sea cell whose column
\* is shallower than the deepest depth of the grid.
C9_Witness ==
    /\ da_pc = "done"
    /\ da_in.top_depth = 0
    /\ NegDown(da_in.depth) = GridMin(da_in.grid)
    /\ \E c \in SeaCells : DepthRho(da_in.grid[c].s)[1] > GridMin(da_in.grid)

\* C10 (as claimed): at every sea cell the layers that keep their thickness
\* are one contiguous index range holding every layer whose depth lies
\* between the normalized bounds.
C10_SelectionCoversBounds ==
    da_pc = "done" =>
        \A c \in SeaCells :
            LET sel == {k \in 1..NLayers : thickness[c][k] # 0}
            IN /\ \A k \in 1..NLayers :
                    (da_depth <= depths[c][k] /\ depths[c][k] <= da_top)
                        => k \in sel
               /\ \A k1 \in sel : \A k2 \in sel :
                    \A k \in k1..k2 : k \in sel

\* ------------------------------------------------------- transect: claims

\* C5 (as claimed): the caller's depth and z hold after every step what they
\* held when transect was called.
C5_InputsUnchanged ==
    /\ caller_depth = tr_in.depth
    /\ caller_z = tr_in.z

\* The distance along the path: the sum of the consecutive distances
DistCumulative(lat) ==
    [i \in 1..Len(lat) |->
        SeqSum([j \in 1..(i - 1) |-> earth_distance(lat[j], lat[j + 1])])]

\* C6 (as claimed): the distance of waypoint i is the sum of the distances
\* between the consecutive waypoints up to i, so the distances never
\* decrease along the path.
C6_DistanceCumulative ==
    tr_pc = "pad" =>
        /\ t_dist = [i \in 1..Len(tr_in.lat) |->
                        RInt(DistCumulative(tr_in.lat)[i])]
        /\ NonDecreasing(t_dist)

\* C7 (as claimed): a cell of level k and column j whose depth z[k] is
\* below the bottom depth interpolated along the distance at column j is
\* masked (stated where both interpolations are defined: distances and z
\* non-decreasing).
C7_MaskBelowBottom ==
    (tr_pc = "done" /\ NonDecreasing(t_dist) /\ NonDecreasing(t_z)) =>
        \A j \in 1..Len(t_x) : \A k \in 1..Len(t_z) :
            \A b \in Interp(XX[j], t_dist, Bottoms) :
                RLess(t_z[k], b) => t_mask[k][j]

\* ----------------------------------------------------------- specifications

InitCD == CDInit /\ DAIdle /\ TRIdle
SpecCD == InitCD /\ [][CDNext]_vars

InitDA == DAInit /\ CDIdle /\ TRIdle
SpecDA == InitDA /\ [][DANext]_vars

InitTR == TRInit /\ CDIdle /\ DAIdle
SpecTR == InitTR /\ [][TRNext]_vars

====
